---- MODULE Spec2Model ----
(***************************************************************************)
(* Model of ppcls/arch/backbone/legendary_models/resnet.py: the ResNet     *)
(* architecture assembly (ResNet.__init__), the layer constructors it      *)
(* calls (ConvBNLayer, BasicBlock, BottleneckBlock) and the eleven factory *)
(* functions ResNet18 ... ResNet200_vd with their pretrained dispatch.     *)
(*                                                                         *)
(* Python indices (block_idx, i, list positions) are kept 0-based; TLA+    *)
(* sequences are indexed with +1.                                          *)
(***************************************************************************)
EXTENDS Integers, Sequences, FiniteSets, TLC

VARIABLES
    pc,            \* position of the call: idle, assert, stem, blocks, head, dispatch, returned, raised, conv, conv_done
    factory,       \* name of the factory being called ("" when none)
    lr_mult_list,  \* the lr_mult_list argument: [kind, len]
    pretrained,    \* the pretrained argument, by Python type/value
    stem,          \* sequence of ConvBNLayer records (self.stem)
    block_list,    \* sequence of residual unit records (block_list / self.blocks)
    block_idx,     \* outer loop variable of ResNet.__init__
    i,             \* inner loop variable of ResNet.__init__
    shortcut,      \* the mutable shortcut flag of ResNet.__init__
    out,           \* sequence of at most one classifier record (self.out)
    params,        \* "none" (nothing allocated), "random", "loaded"
    loader_calls,  \* sequence of checkpoint-loader invocations
    fetch,         \* outcome of the remote fetch: "none", "ok", "fail"
    err,           \* exception that ended the call, "none" when there is none
    conv,          \* a standalone ConvBNLayer (sequence of at most one)
    x,             \* spatial size fed to the standalone ConvBNLayer
    y,             \* sequence of at most one output spatial size
    fwd            \* sequence of at most one record of a residual unit's forward call

vars == <<pc, factory, lr_mult_list, pretrained, stem, block_list, block_idx, i,
          shortcut, out, params, loader_calls, fetch, err, conv, x, y, fwd>>

netvars == <<factory, lr_mult_list, pretrained, stem, block_list, block_idx, i,
             shortcut, out, params, loader_calls, fetch>>

convvars == <<conv, x, y, fwd>>

(***************************************************************************)
(* Bounds of the model.                                                    *)
(***************************************************************************)
MaxLrLen == 6
MaxKernel == 8
MaxStride == 2
MaxH == 9

(***************************************************************************)
(* Module-level tables.                                                    *)
(***************************************************************************)
NET_CONFIG ==
    [d \in {"18", "34", "50", "101", "152", "200"} |->
        CASE d = "18"  -> [block_type |-> "BasicBlock",
                           block_depth |-> <<2, 2, 2, 2>>,
                           num_channels |-> <<64, 64, 128, 256>>]
          [] d = "34"  -> [block_type |-> "BasicBlock",
                           block_depth |-> <<3, 4, 6, 3>>,
                           num_channels |-> <<64, 64, 128, 256>>]
          [] d = "50"  -> [block_type |-> "BottleneckBlock",
                           block_depth |-> <<3, 4, 6, 3>>,
                           num_channels |-> <<64, 256, 512, 1024>>]
          [] d = "101" -> [block_type |-> "BottleneckBlock",
                           block_depth |-> <<3, 4, 23, 3>>,
                           num_channels |-> <<64, 256, 512, 1024>>]
          [] d = "152" -> [block_type |-> "BottleneckBlock",
                           block_depth |-> <<3, 8, 36, 3>>,
                           num_channels |-> <<64, 256, 512, 1024>>]
          [] d = "200" -> [block_type |-> "BottleneckBlock",
                           block_depth |-> <<3, 12, 48, 3>>,
                           num_channels |-> <<64, 256, 512, 1024>>]]

\* The keys of MODEL_URLS: the names of the factories.
MODEL_URLS ==
    {"ResNet18", "ResNet18_vd", "ResNet34", "ResNet34_vd", "ResNet50",
     "ResNet50_vd", "ResNet101", "ResNet101_vd", "ResNet152", "ResNet152_vd",
     "ResNet200_vd"}

\* What each factory binds: the NET_CONFIG key, the version and use_ssld.
Factories ==
    [f \in MODEL_URLS |->
        CASE f = "ResNet18"     -> [depth |-> "18",  version |-> "vb", use_ssld |-> FALSE]
          [] f = "ResNet18_vd"  -> [depth |-> "18",  version |-> "vd", use_ssld |-> FALSE]
          [] f = "ResNet34"     -> [depth |-> "34",  version |-> "vb", use_ssld |-> FALSE]
          [] f = "ResNet34_vd"  -> [depth |-> "34",  version |-> "vd", use_ssld |-> TRUE]
          [] f = "ResNet50"     -> [depth |-> "50",  version |-> "vb", use_ssld |-> FALSE]
          [] f = "ResNet50_vd"  -> [depth |-> "50",  version |-> "vd", use_ssld |-> TRUE]
          [] f = "ResNet101"    -> [depth |-> "101", version |-> "vb", use_ssld |-> FALSE]
          [] f = "ResNet101_vd" -> [depth |-> "101", version |-> "vd", use_ssld |-> TRUE]
          [] f = "ResNet152"    -> [depth |-> "152", version |-> "vb", use_ssld |-> FALSE]
          [] f = "ResNet152_vd" -> [depth |-> "152", version |-> "vd", use_ssld |-> FALSE]
          [] f = "ResNet200_vd" -> [depth |-> "200", version |-> "vd", use_ssld |-> TRUE]]

\* self.num_filters
num_filters == <<64, 128, 256, 512>>

\* self.stem_cfg: num_channels, num_filters, filter_size, stride
stem_cfg ==
    [v \in {"vb", "vd"} |->
        IF v = "vb" THEN << <<3, 64, 7, 2>> >>
        ELSE << <<3, 32, 3, 2>>, <<32, 32, 3, 1>>, <<32, 64, 3, 1>> >>]

(***************************************************************************)
(* ConvBNLayer                                                             *)
(***************************************************************************)
ConvPaddingNoHalving(filter_size) == filter_size - 1

\* padding=(filter_size - 1) // 2
ConvPadding(filter_size) == (filter_size - 1) \div 2

\* ConvBNLayer.__init__: the attributes the layer keeps.  act is "relu" or
\* "none"; lr_mult is the position in lr_mult_list the multiplier came from.
ConvBNLayer(num_channels, nfilters, filter_size, stride, is_vd_mode, act, lr_mult) ==
    [num_channels |-> num_channels,
     num_filters  |-> nfilters,
     filter_size  |-> filter_size,
     stride       |-> stride,
     padding      |-> ConvPadding(filter_size),
     is_vd_mode   |-> is_vd_mode,
     act          |-> act,
     lr_mult      |-> lr_mult]

AvgPoolOutFloorMode(h) == (h - 2) \div 2 + 1

\* AvgPool2D(kernel_size=2, stride=2, padding=0, ceil_mode=True) on size h:
\* ceil((h - 2) / 2) + 1.
AvgPoolOut(h) == (h - 2 + 1) \div 2 + 1

\* Conv2D on size h: the window must fit in the padded input, and the output
\* is floor((h + 2*padding - kernel) / stride) + 1.
ConvFits(layer, h) == h + 2 * layer.padding - layer.filter_size >= 0

ConvOut(layer, h) == (h + 2 * layer.padding - layer.filter_size) \div layer.stride + 1

\* ConvBNLayer.forward, on the spatial size: the optional average pool, then
\* the convolution (bn and relu keep the size).
ConvBNLayerFits(layer, h) ==
    ConvFits(layer, IF layer.is_vd_mode THEN AvgPoolOut(h) ELSE h)

ConvBNLayerForward(layer, h) ==
    ConvOut(layer, IF layer.is_vd_mode THEN AvgPoolOut(h) ELSE h)

(***************************************************************************)
(* Residual units                                                          *)
(***************************************************************************)
BottleneckBlock(num_channels, nfilters, stride, sc, if_first, lr_mult) ==
    [block_type |-> "BottleneckBlock",
     convs |-> << ConvBNLayer(num_channels, nfilters, 1, 1, FALSE, "relu", lr_mult),
                  ConvBNLayer(nfilters, nfilters, 3, stride, FALSE, "relu", lr_mult),
                  ConvBNLayer(nfilters, nfilters * 4, 1, 1, FALSE, "none", lr_mult) >>,
     short |-> IF ~sc
               THEN << ConvBNLayer(num_channels, nfilters * 4, 1,
                                   IF if_first THEN stride ELSE 1,
                                   IF if_first THEN FALSE ELSE TRUE,
                                   "none", lr_mult) >>
               ELSE << >>,
     shortcut |-> sc]

BasicBlock(num_channels, nfilters, stride, sc, if_first, lr_mult) ==
    [block_type |-> "BasicBlock",
     convs |-> << ConvBNLayer(num_channels, nfilters, 3, stride, FALSE, "relu", lr_mult),
                  ConvBNLayer(nfilters, nfilters, 3, 1, FALSE, "none", lr_mult) >>,
     short |-> IF ~sc
               THEN << ConvBNLayer(num_channels, nfilters, 1,
                                   IF if_first THEN stride ELSE 1,
                                   IF if_first THEN FALSE ELSE TRUE,
                                   "none", lr_mult) >>
               ELSE << >>,
     shortcut |-> sc]

\* globals()[self.block_type](...)
BlockCtor(block_type, num_channels, nfilters, stride, sc, if_first, lr_mult) ==
    IF block_type = "BottleneckBlock"
    THEN BottleneckBlock(num_channels, nfilters, stride, sc, if_first, lr_mult)
    ELSE BasicBlock(num_channels, nfilters, stride, sc, if_first, lr_mult)

(***************************************************************************)
(* ResNet.__init__                                                         *)
(***************************************************************************)
\* self.cfg and version, as bound by the factory being called.
cfg == NET_CONFIG[Factories[factory].depth]

version == Factories[factory].version

ChannelsMultAlways4(num_channels) == 4

\* self.channels_mult = 1 if self.num_channels[-1] == 256 else 4
channels_mult(num_channels) ==
    IF num_channels[Len(num_channels)] = 256 THEN 1 ELSE 4

AssertLrMultAtLeast5(lr) == lr.kind \in {"list", "tuple"} /\ lr.len >= 5

\* The two asserts on lr_mult_list.
AssertLrMult(lr) == lr.kind \in {"list", "tuple"} /\ lr.len = 5

\* lr_mult_list[p] is defined (no IndexError) for 0 <= p < len.
LrInRange(lr, p) == p < lr.len

UnitNumChannelsNoMult(c, bidx, idx) ==
    IF idx = 0 THEN c.num_channels[bidx + 1] ELSE num_filters[bidx + 1]

\* num_channels=... of the unit built at (block_idx, i)
UnitNumChannels(c, bidx, idx) ==
    IF idx = 0 THEN c.num_channels[bidx + 1]
    ELSE num_filters[bidx + 1] * channels_mult(c.num_channels)

UnitStrideEveryStage(bidx, idx) == IF idx = 0 THEN 2 ELSE 1

\* stride=2 if i == 0 and block_idx != 0 else 1
UnitStride(bidx, idx) == IF idx = 0 /\ bidx # 0 THEN 2 ELSE 1

UnitIfFirstAnyVersion(v, bidx, idx) == bidx = idx /\ idx = 0

\* if_first=block_idx == i == 0 if version == "vd" else True
UnitIfFirst(v, bidx, idx) ==
    IF v = "vd" THEN (bidx = idx /\ idx = 0) ELSE TRUE

StageDoneOneEarly(c, bidx, idx) == idx >= c.block_depth[bidx + 1] - 1

\* range(self.block_depth[block_idx]) is exhausted
StageDone(c, bidx, idx) == idx >= c.block_depth[bidx + 1]

ShortcutCarriedOver(sc) == sc

\* shortcut = False at the top of the outer loop body
ShortcutAtStageStart(sc) == FALSE

Raise(e) ==
    /\ pc' = "raised"
    /\ err' = e

PretrainedArgs == {"False", "True", "str", "int", "None"}

LrArgs ==
    [kind : {"list", "tuple"}, len : 0..MaxLrLen] \cup {[kind |-> "float", len |-> 0]}

\* A factory is called: ResNet(config=NET_CONFIG[...], version=..., **args).
Call ==
    /\ pc = "idle"
    /\ \E f \in MODEL_URLS, lr \in LrArgs, p \in PretrainedArgs :
          /\ factory' = f
          /\ lr_mult_list' = lr
          /\ pretrained' = p
    /\ pc' = "assert"
    /\ UNCHANGED <<stem, block_list, block_idx, i, shortcut, out, params,
                   loader_calls, fetch, err, convvars>>

\* Lines 235-255: attribute assignments and the two asserts.
CheckArgs ==
    /\ pc = "assert"
    /\ IF AssertLrMult(lr_mult_list)
       THEN pc' = "stem" /\ err' = err
       ELSE Raise("AssertionError")
    /\ UNCHANGED <<netvars, convvars>>

\* Lines 258-277: the stem, the max-pool, block_list = [].
BuildStem ==
    /\ pc = "stem"
    /\ IF LrInRange(lr_mult_list, 0)
       THEN /\ stem' = [n \in 1..Len(stem_cfg[version]) |->
                          LET e == stem_cfg[version][n] IN
                          ConvBNLayer(e[1], e[2], e[3], e[4], FALSE, "relu", 0)]
            /\ block_list' = << >>
            /\ block_idx' = 0
            /\ i' = 0
            /\ shortcut' = ShortcutAtStageStart(shortcut)
            /\ pc' = IF Len(cfg.block_depth) = 0 THEN "head" ELSE "blocks"
            /\ err' = err
       ELSE /\ Raise("IndexError")
            /\ UNCHANGED <<stem, block_list, block_idx, i, shortcut>>
    /\ UNCHANGED <<factory, lr_mult_list, pretrained, out, params, loader_calls,
                   fetch, convvars>>

\* Lines 280-290: one iteration of the inner loop.
AppendBlock ==
    /\ pc = "blocks"
    /\ ~StageDone(cfg, block_idx, i)
    /\ IF LrInRange(lr_mult_list, block_idx + 1)
       THEN /\ block_list' = Append(block_list,
                                BlockCtor(cfg.block_type,
                                          UnitNumChannels(cfg, block_idx, i),
                                          num_filters[block_idx + 1],
                                          UnitStride(block_idx, i),
                                          shortcut,
                                          UnitIfFirst(version, block_idx, i),
                                          block_idx + 1))
            /\ shortcut' = TRUE
            /\ i' = i + 1
            /\ pc' = pc
            /\ err' = err
       ELSE /\ Raise("IndexError")
            /\ UNCHANGED <<block_list, shortcut, i>>
    /\ UNCHANGED <<factory, lr_mult_list, pretrained, stem, block_idx, out,
                   params, loader_calls, fetch, convvars>>

\* Lines 278-279: the inner loop is exhausted; the outer loop moves to the
\* next stage and sets shortcut = False, or ends.
NextStage ==
    /\ pc = "blocks"
    /\ StageDone(cfg, block_idx, i)
    /\ block_idx' = block_idx + 1
    /\ i' = 0
    /\ IF block_idx + 1 < Len(cfg.block_depth)
       THEN pc' = "blocks" /\ shortcut' = ShortcutAtStageStart(shortcut)
       ELSE pc' = "head" /\ shortcut' = shortcut
    /\ UNCHANGED <<factory, lr_mult_list, pretrained, stem, block_list, out,
                   params, loader_calls, fetch, err, convvars>>

\* Lines 291-301: self.blocks, the pooling and the Linear classifier.
BuildHead ==
    /\ pc = "head"
    /\ out' = << [in_features |-> cfg.num_channels[Len(cfg.num_channels)] * 2,
                  out_features |-> "class_num"] >>
    /\ params' = "random"
    /\ pc' = "dispatch"
    /\ UNCHANGED <<factory, lr_mult_list, pretrained, stem, block_list, block_idx,
                   i, shortcut, loader_calls, fetch, err, convvars>>

(***************************************************************************)
(* Factory functions: the pretrained dispatch after construction.          *)
(***************************************************************************)
PretrainedBranchNoElse(p) ==
    IF p \in {"False", "True"} THEN (IF p = "True" THEN "url" ELSE "skip")
    ELSE IF p = "str" THEN "path"
    ELSE "skip"

\* if isinstance(model.pretrained, bool): ... elif isinstance(..., str): ...
\* else: raise RuntimeError
PretrainedBranch(p) ==
    IF p \in {"False", "True"} THEN (IF p = "True" THEN "url" ELSE "skip")
    ELSE IF p = "str" THEN "path"
    ELSE "raise"

\* Names bound in the module's namespace by the imports of lines 26-27.
ImportedNames == {"TheseusLayer", "load_dygraph_pretrain_from",
                  "load_dygraph_pretrain_from_url"}

\* The checkpoint loader: it either loads the parameters or fails with a
\* CheckpointLoadError.
LoaderOutcomes == {"ok", "fail"}

LoaderRaises(outcome) == IF outcome = "ok" THEN "none" ELSE "CheckpointLoadError"

Swallowed(e) == "none"

\* The factory body has no try/except: an exception raised by a call inside
\* it is the exception that leaves the factory.
Unhandled(e) == e

\* pretrained is a bool and False: return model.
FactoryReturn ==
    /\ pc = "dispatch"
    /\ PretrainedBranch(pretrained) = "skip"
    /\ pc' = "returned"
    /\ UNCHANGED <<netvars, err, convvars>>

\* pretrained is True: load_dygraph_pretrain_from_url(model, MODEL_URLS[name]).
FactoryLoadUrl ==
    /\ pc = "dispatch"
    /\ PretrainedBranch(pretrained) = "url"
    /\ \E outcome \in LoaderOutcomes :
          /\ loader_calls' = Append(loader_calls,
                                [fn |-> "load_dygraph_pretrain_from_url",
                                 source |-> factory,
                                 use_ssld |-> Factories[factory].use_ssld])
          /\ fetch' = outcome
          /\ params' = IF outcome = "ok" THEN "loaded" ELSE params
          /\ err' = Unhandled(LoaderRaises(outcome))
          /\ pc' = IF err' = "none" THEN "returned" ELSE "raised"
    /\ UNCHANGED <<factory, lr_mult_list, pretrained, stem, block_list, block_idx,
                   i, shortcut, out, convvars>>

\* pretrained is a str: load_dygraph_pretrain(model, model.pretrained).  The
\* name is looked up when the call is evaluated.
FactoryLoadPath ==
    /\ pc = "dispatch"
    /\ PretrainedBranch(pretrained) = "path"
    /\ IF "load_dygraph_pretrain" \in ImportedNames
       THEN \E outcome \in LoaderOutcomes :
               /\ loader_calls' = Append(loader_calls,
                                     [fn |-> "load_dygraph_pretrain",
                                      source |-> "path",
                                      use_ssld |-> FALSE])
               /\ fetch' = fetch
               /\ params' = IF outcome = "ok" THEN "loaded" ELSE params
               /\ err' = Unhandled(LoaderRaises(outcome))
               /\ pc' = IF err' = "none" THEN "returned" ELSE "raised"
       ELSE /\ Raise(Unhandled("NameError"))
            /\ UNCHANGED <<loader_calls, fetch, params>>
    /\ UNCHANGED <<factory, lr_mult_list, pretrained, stem, block_list, block_idx,
                   i, shortcut, out, convvars>>

\* Any other type: raise RuntimeError.
FactoryRaise ==
    /\ pc = "dispatch"
    /\ PretrainedBranch(pretrained) = "raise"
    /\ Raise("RuntimeError")
    /\ UNCHANGED <<netvars, convvars>>

Init ==
    /\ pc = "idle"
    /\ factory = ""
    /\ lr_mult_list = [kind |-> "list", len |-> 5]
    /\ pretrained = "False"
    /\ stem = << >>
    /\ block_list = << >>
    /\ block_idx = 0
    /\ i = 0
    /\ shortcut = FALSE
    /\ out = << >>
    /\ params = "none"
    /\ loader_calls = << >>
    /\ fetch = "none"
    /\ err = "none"
    /\ conv = << >>
    /\ x = 0
    /\ y = << >>
    /\ fwd = << >>

Next ==
    \/ Call
    \/ CheckArgs
    \/ BuildStem
    \/ AppendBlock
    \/ NextStage
    \/ BuildHead
    \/ FactoryReturn
    \/ FactoryLoadUrl
    \/ FactoryLoadPath
    \/ FactoryRaise

Spec == Init /\ [][Next]_vars

(***************************************************************************)
(* A single ConvBNLayer applied to an input of spatial size x.             *)
(***************************************************************************)
InitConv ==
    /\ pc = "conv"
    /\ factory = ""
    /\ lr_mult_list = [kind |-> "list", len |-> 5]
    /\ pretrained = "False"
    /\ stem = << >>
    /\ block_list = << >>
    /\ block_idx = 0
    /\ i = 0
    /\ shortcut = FALSE
    /\ out = << >>
    /\ params = "none"
    /\ loader_calls = << >>
    /\ fetch = "none"
    /\ err = "none"
    /\ \E k \in 1..MaxKernel, s \in 1..MaxStride, vd \in BOOLEAN :
          conv = << ConvBNLayer(3, 64, k, s, vd, "none", 0) >>
    /\ x \in 1..MaxH
    /\ y = << >>
    /\ fwd = << >>

\* ConvBNLayer.forward(x)
ConvForward ==
    /\ pc = "conv"
    /\ IF ConvBNLayerFits(conv[1], x)
       THEN /\ y' = << ConvBNLayerForward(conv[1], x) >>
            /\ pc' = "conv_done"
            /\ err' = err
       ELSE /\ Raise("ValueError")
            /\ y' = y
    /\ UNCHANGED <<netvars, conv, x, fwd>>

NextConv == ConvForward

SpecConv == InitConv /\ [][NextConv]_vars

(***************************************************************************)
(* BottleneckBlock.forward / BasicBlock.forward on a constructed network:  *)
(* one residual unit of the returned model applied to an input of spatial  *)
(* size h.                                                                 *)
(***************************************************************************)
RECURSIVE PathFits(_, _)
\* Every convolution of conv0, conv1(, conv2) applied in turn fits its input.
PathFits(layers, h) ==
    IF layers = << >> THEN TRUE
    ELSE /\ ConvBNLayerFits(Head(layers), h)
         /\ PathFits(Tail(layers), ConvBNLayerForward(Head(layers), h))

RECURSIVE PathForward(_, _)
\* x = self.conv0(x); x = self.conv1(x)(; x = self.conv2(x))
PathForward(layers, h) ==
    IF layers = << >> THEN h
    ELSE PathForward(Tail(layers), ConvBNLayerForward(Head(layers), h))

\* short = identity if self.shortcut else self.short(identity)
ShortFits(u, h) == u.shortcut \/ ConvBNLayerFits(u.short[1], h)

ShortForward(u, h) ==
    IF u.shortcut THEN h ELSE ConvBNLayerForward(u.short[1], h)

\* paddle.add(x=x, y=short): the sizes must be equal, or one of them 1
\* (broadcast to the other).
AddFits(a, b) == a = b \/ a = 1 \/ b = 1

AddOut(a, b) == IF a >= b THEN a ELSE b

BlockForward ==
    /\ pc = "returned"
    /\ \E n \in 1..Len(block_list), h \in 1..MaxH :
          LET u == block_list[n] IN
          IF PathFits(u.convs, h) /\ ShortFits(u, h)
          THEN LET main  == PathForward(u.convs, h)
                   short == ShortForward(u, h)
               IN  /\ fwd' = << [n |-> n, h |-> h, main |-> main, short |-> short] >>
                   /\ IF AddFits(main, short)
                      THEN /\ y' = << AddOut(main, short) >>
                           /\ pc' = "fwd_done"
                           /\ err' = err
                      ELSE /\ Raise("ValueError")
                           /\ y' = y
          ELSE /\ Raise("ValueError")
               /\ fwd' = << [n |-> n, h |-> h, main |-> 0, short |-> 0] >>
               /\ y' = y
    /\ UNCHANGED <<netvars, conv, x>>

NextForward ==
    \/ Next
    \/ BlockForward

SpecForward == Init /\ [][NextForward]_vars

(***************************************************************************)
(* Observations on the constructed objects, used by the properties.        *)
(***************************************************************************)
RECURSIVE SumDepth(_, _)
\* block_depth[0] + ... + block_depth[s-1]
SumDepth(c, s) == IF s = 0 THEN 0 ELSE SumDepth(c, s - 1) + c.block_depth[s]

\* Stage (0-based) and index within the stage of the n-th unit of block_list.
StageOf(c, n) == Cardinality({s \in 1..Len(c.block_depth) : SumDepth(c, s) < n})

IdxOf(c, n) == n - SumDepth(c, StageOf(c, n)) - 1

\* What a unit was constructed with, read back from its layers.
InChannels(u) == u.convs[1].num_channels

BaseFilters(u) == u.convs[1].num_filters

OutChannels(u) == u.convs[Len(u.convs)].num_filters

BlockStride(u) ==
    IF u.block_type = "BottleneckBlock" THEN u.convs[2].stride ELSE u.convs[1].stride

Called == pc \notin {"idle", "conv", "conv_done"} /\ factory \in MODEL_URLS

Ended == pc \in {"returned", "raised"}

Units == 1..Len(block_list)

(***************************************************************************)
(* Properties                                                              *)
(***************************************************************************)

\* C1: every residual unit constructed with shortcut == true has in_channels
\* equal to its output channel count (num_filters for BasicBlock,
\* num_filters * 4 for BottleneckBlock) and stride 1, for every catalog entry
\* and both versions.
C1_IdentitySkipShapes ==
    Called =>
        \A n \in Units :
            LET u == block_list[n] IN
            u.shortcut =>
                /\ InChannels(u) = (IF u.block_type = "BasicBlock"
                                    THEN BaseFilters(u) ELSE BaseFilters(u) * 4)
                /\ InChannels(u) = OutChannels(u)
                /\ BlockStride(u) = 1
                /\ u.short = << >>

C1_Witness ==
    /\ pc = "returned"
    /\ factory = "ResNet34_vd"
    /\ Len(block_list) = 16
    /\ block_list[16].shortcut
    /\ InChannels(block_list[16]) = 512

\* C2: unit 0 of every stage s > 0 has stride 2, every other unit has
\* stride 1, and stage 0 unit 0 has stride 1.
C2_StridePattern ==
    Called =>
        \A n \in Units :
            BlockStride(block_list[n]) =
                (IF IdxOf(cfg, n) = 0 /\ StageOf(cfg, n) > 0 THEN 2 ELSE 1)

C2_Witness ==
    /\ pc = "returned"
    /\ factory = "ResNet50"
    /\ BlockStride(block_list[1]) = 1
    /\ BlockStride(block_list[4]) = 2
    /\ BlockStride(block_list[5]) = 1
    /\ BlockStride(block_list[14]) = 2

\* C3: in every stage exactly the first unit is constructed with
\* shortcut == false and every later unit with shortcut == true; the flag is
\* false whenever a stage starts, whatever it was at the end of the previous
\* stage.
C3_ShortcutPerStage ==
    Called =>
        /\ \A n \in Units : block_list[n].shortcut = (IdxOf(cfg, n) # 0)
        /\ (pc = "blocks" /\ i = 0) => ~shortcut
        /\ (pc = "blocks" /\ i > 0) => shortcut

C3_Witness ==
    /\ pc = "blocks"
    /\ factory = "ResNet18"
    /\ block_idx = 1
    /\ i = 0
    /\ Len(block_list) = 2
    /\ block_list[2].shortcut
    /\ ~shortcut

\* C4: once the loops of ResNet.__init__ have ended, block_list holds as many
\* units as the sum of the entry's block_depth, all of the entry's block_type;
\* depth 50 gives 16 BottleneckBlock units.
C4_UnitCount ==
    (Called /\ (pc \in {"head", "dispatch", "returned"} \/ out # << >>)) =>
        /\ Len(block_list) = SumDepth(cfg, Len(cfg.block_depth))
        /\ \A n \in Units : block_list[n].block_type = cfg.block_type
        /\ Factories[factory].depth = "50" =>
              /\ Len(block_list) = 16
              /\ \A n \in Units : block_list[n].block_type = "BottleneckBlock"

C4_Witness ==
    /\ pc = "returned"
    /\ factory = "ResNet50"
    /\ Len(block_list) = 16
    /\ block_list[16].block_type = "BottleneckBlock"

\* C5: a call with an lr_mult_list whose length is not 5 never gets past the
\* asserts: it ends in an AssertionError, with no stem layer, no residual
\* unit and no classifier constructed and no parameters allocated.
C5_BadLrMultFailsFirst ==
    (Called /\ lr_mult_list.len # 5) =>
        /\ pc \in {"assert", "raised"}
        /\ pc = "raised" => err = "AssertionError"
        /\ stem = << >>
        /\ block_list = << >>
        /\ out = << >>
        /\ params = "none"
        /\ loader_calls = << >>

C5_Witness ==
    /\ pc = "raised"
    /\ err = "AssertionError"
    /\ lr_mult_list = [kind |-> "list", len |-> 4]
    /\ factory = "ResNet101_vd"

\* C6: a factory called with pretrained given as a string invokes the
\* checkpoint loader on the constructed model with that path, and returns the
\* model (unless the loader itself fails).
C6_StringPathLoads ==
    (Called /\ Ended /\ pretrained = "str" /\ AssertLrMult(lr_mult_list)) =>
        /\ Len(loader_calls) = 1
        /\ loader_calls[1].source = "path"
        /\ err \in {"none", "CheckpointLoadError"}
        /\ err = "none" => pc = "returned"

C8_BadPretrainedType ==
    (Called /\ pretrained \notin {"False", "True", "str"}) =>
        /\ pc # "returned"
        /\ loader_calls = << >>
        /\ Ended => err \in {"RuntimeError", "AssertionError"}
        /\ (Ended /\ AssertLrMult(lr_mult_list)) => err = "RuntimeError"
        /\ pc = "dispatch" => ENABLED FactoryRaise

C8_Witness ==
    /\ pc = "raised"
    /\ err = "RuntimeError"
    /\ pretrained = "None"
    /\ factory = "ResNet200_vd"
    /\ out # << >>

\* C9 (as stated): a ConvBNLayer with stride 1 and no pre-downsampling pool
\* preserves the input spatial size for every kernel size k >= 1 and every
\* input size.
C9_Stride1Preserves ==
    (pc \in {"conv_done", "raised"} /\ conv # << >>
        /\ conv[1].stride = 1 /\ ~conv[1].is_vd_mode) =>
        /\ pc = "conv_done"
        /\ y = << x >>

\* C9 (amended): a ConvBNLayer with an odd kernel size k, stride 1 and no
\* pre-downsampling pool preserves the input spatial size exactly, for every
\* input size.
C9_OddKernelStride1Preserves ==
    (pc \in {"conv_done", "raised"} /\ conv # << >>
        /\ conv[1].stride = 1 /\ ~conv[1].is_vd_mode
        /\ conv[1].filter_size % 2 = 1) =>
        /\ pc = "conv_done"
        /\ y = << x >>
        /\ x + 2 * conv[1].padding - conv[1].filter_size + 1 = x

C9_Witness ==
    /\ pc = "conv_done"
    /\ conv[1].filter_size = 7
    /\ conv[1].stride = 1
    /\ ~conv[1].is_vd_mode
    /\ x = 5
    /\ y = << 5 >>

\* C10: for every unit built with a projection shortcut: in version vb the
\* projection carries the block's stride and applies no average-pool at every
\* position; in version vd the first unit of every stage s > 0 uses a
\* stride-1 projection preceded by the average-pool, while stage 0 unit 0
\* uses the block's stride (1) and no pool.
C10_ProjectionShortcut ==
    Called =>
        \A n \in Units :
            LET u == block_list[n] IN
            ~u.shortcut =>
                /\ Len(u.short) = 1
                /\ u.short[1].filter_size = 1
                /\ u.short[1].num_channels = InChannels(u)
                /\ u.short[1].num_filters = OutChannels(u)
                /\ IF version = "vb" \/ StageOf(cfg, n) = 0
                   THEN /\ u.short[1].stride = BlockStride(u)
                        /\ ~u.short[1].is_vd_mode
                        /\ StageOf(cfg, n) = 0 => u.short[1].stride = 1
                   ELSE /\ u.short[1].stride = 1
                        /\ u.short[1].is_vd_mode
                        /\ BlockStride(u) = 2

C10_Witness ==
    /\ pc = "returned"
    /\ factory = "ResNet50_vd"
    /\ ~block_list[1].short[1].is_vd_mode
    /\ block_list[4].short[1].is_vd_mode
    /\ block_list[4].short[1].stride = 1
    /\ BlockStride(block_list[4]) = 2

\* C11: channel counts chain along the whole pipeline: the first stem layer
\* takes 3 channels and each later stem layer takes what the previous one
\* produces; the first residual unit takes the stem's output (64); every
\* later unit takes the preceding unit's output channel count, across stage
\* boundaries too; inside a unit each layer takes what the previous one
\* produces; and the classifier's input width equals the last unit's output
\* channel count (512 for BasicBlock entries, 2048 for BottleneckBlock ones).
C11_ChannelsChain ==
    (Called /\ pc \notin {"assert", "stem"} /\ stem # << >>) =>
        /\ stem[1].num_channels = 3
        /\ \A n \in 2..Len(stem) : stem[n].num_channels = stem[n - 1].num_filters
        /\ stem[Len(stem)].num_filters = 64
        /\ block_list # << >> =>
              InChannels(block_list[1]) = stem[Len(stem)].num_filters
        /\ \A n \in 2..Len(block_list) :
              InChannels(block_list[n]) = OutChannels(block_list[n - 1])
        /\ \A n \in Units :
              \A k \in 2..Len(block_list[n].convs) :
                 block_list[n].convs[k].num_channels =
                    block_list[n].convs[k - 1].num_filters
        /\ out # << >> =>
              /\ block_list # << >>
              /\ out[1].in_features = OutChannels(block_list[Len(block_list)])
              /\ out[1].in_features =
                    (IF cfg.block_type = "BasicBlock" THEN 512 ELSE 2048)

C11_Witness ==
    /\ pc = "returned"
    /\ factory = "ResNet101_vd"
    /\ Len(stem) = 3
    /\ Len(block_list) = 33
    /\ InChannels(block_list[4]) = 256
    /\ OutChannels(block_list[3]) = 256
    /\ out[1].in_features = 2048

\* C12: in every residual unit of every catalog entry and both versions, the
\* main path and the shortcut path produce the same spatial size for every
\* input size h >= 1, so the elementwise add is well-formed: h for a stride-1
\* unit and ceil(h / 2) for a stride-2 unit, with the vb projection (1x1
\* stride 2) and with the vd projection (average-pool, then 1x1 stride 1),
\* odd h included.
C12_PathsAgree ==
    fwd # << >> =>
        LET f == fwd[1]
            u == block_list[f.n]
        IN  /\ pc = "fwd_done"
            /\ f.main = f.short
            /\ y = << f.main >>
            /\ f.main = (IF BlockStride(u) = 2 THEN (f.h + 1) \div 2 ELSE f.h)
            /\ f.main >= 1

C12_Witness ==
    /\ pc = "fwd_done"
    /\ factory = "ResNet50_vd"
    /\ fwd[1].n = 4
    /\ fwd[1].h = 7
    /\ block_list[4].short[1].is_vd_mode
    /\ fwd[1].main = 4
    /\ fwd[1].short = 4

====
